---- MODULE Spec2Model ----
(***************************************************************************)
(* The POST /mux-upload handler of src/app.py (mux_upload) as a state      *)
(* machine: one request travels auth -> normalize -> preflight probe ->    *)
(* download -> duration read -> trim -> size guard -> upload, with the     *)
(* try/finally cleanup and the outer catch-all of the handler.  The        *)
(* external tools (yt-dlp, ffprobe, ffmpeg, the hosting service) are the   *)
(* environment: every step draws the tool's outcome from a bounded set.    *)
(***************************************************************************)
EXTENDS Integers, Sequences, FiniteSets, TLC

(***************************************************************************)
(* Bounds of the model.                                                    *)
(***************************************************************************)
\* largest file size (bytes) a tool writes
MaxFileBytes == 2
\* largest media duration (seconds) the probe or a file can have
MaxDur == 2
\* the largest retries _preflight_info is called with on its own
MaxRetries == 3

(***************************************************************************)
(* Python values.  A JSON/Python value is a tagged record, so that a       *)
(* string, a number, a list and None stay distinguishable: the handler     *)
(* calls str methods on values that the request body may hold as any type. *)
(* A string is the sequence of its characters.                             *)
(***************************************************************************)
None    == [t |-> "none", s |-> <<>>, n |-> 0]
Str(cs) == [t |-> "str",  s |-> cs,   n |-> 0]
Num(k)  == [t |-> "int",  s |-> <<>>, n |-> k]
\* a list of k elements (only its length matters to the handler)
List(k) == [t |-> "list", s |-> <<>>, n |-> k]
\* a local variable that has not been assigned yet
Unset   == [t |-> "unset", s |-> <<>>, n |-> 0]

IsStr(v) == v.t = "str"

\* Python truthiness: bool(v)
Truthy(v) ==
    CASE v.t = "str"  -> Len(v.s) > 0
      [] v.t = "int"  -> v.n # 0
      [] v.t = "list" -> v.n > 0
      [] OTHER        -> FALSE

\* Python `a or b`
PyOr(a, b) == IF Truthy(a) THEN a ELSE b

Whitespace == {" ", "\t", "\n"}

RECURSIVE LStrip(_)
LStrip(cs) ==
    IF cs # <<>> /\ Head(cs) \in Whitespace THEN LStrip(Tail(cs)) ELSE cs

RECURSIVE RStrip(_)
RStrip(cs) ==
    IF cs # <<>> /\ cs[Len(cs)] \in Whitespace
    THEN RStrip(SubSeq(cs, 1, Len(cs) - 1))
    ELSE cs

\* str.strip()
Strip(cs) == RStrip(LStrip(cs))

\* str.startswith(p)
StartsWith(cs, p) == Len(cs) >= Len(p) /\ SubSeq(cs, 1, Len(p)) = p

\* the digits of a small number, as str() / an f-string renders it
Digits(k) == <<CASE k = 0 -> "0" [] k = 1 -> "1" [] k = 2 -> "2" [] k = 3 -> "3"
                 [] k = 4 -> "4" [] k = 5 -> "5" [] k = 6 -> "6" [] k = 7 -> "7"
                 [] k = 8 -> "8" [] OTHER -> "9">>

\* f"{v}": how an f-string renders a value
PyFormat(v) ==
    CASE v.t = "str"  -> v.s
      [] v.t = "int"  -> Digits(v.n)
      [] v.t = "none" -> <<"N", "o", "n", "e">>
      [] OTHER        -> <<"[", "]">>

(***************************************************************************)
(* The allow-listed prefix of line 102 and the request values drawn.       *)
(***************************************************************************)
VreddPrefix ==
    <<"h","t","t","p","s",":","/","/","v",".","r","e","d","d",".","i","t","/">>

UrlA      == VreddPrefix \o <<"a">>
\* a valid URL with surrounding whitespace
UrlB      == <<" ">> \o VreddPrefix \o <<"b", "\n">>
UrlC      == VreddPrefix \o <<"c">>
\* http instead of https: not the allow-listed prefix
UrlOther  == <<"h","t","t","p",":","/","/","v",".","r","e","d","d",".","i","t","/","a">>

ThreadIds     == {None, Str(<<"t","1">>), Str(<<" ","t","1">>), Num(7)}
RedditIds     == {None, Str(<<"r","1">>)}
VreddUrls     == {None, Str(UrlA), Str(UrlOther), Num(5)}
VideoUrlCleans == {None, Str(UrlB)}
VideoUrls     == {None, Str(UrlC)}

\* the request body: payload.get(k) is None for an absent key
Payloads ==
    [thread_id : ThreadIds, reddit_id : RedditIds, vredd_url : VreddUrls,
     video_url_clean : VideoUrlCleans, video_url : VideoUrls]

\* str(uuid.uuid4()): a fresh random string
Uuids == {<<"u","1">>, <<"u","2">>}

Tokens == {"", "tok"}
Headers == {"tok", "bad"}
\* MAX_DURATION_SEC and MAX_BYTES of the environment (0 = no limit)
DurationCaps == {0, 1}
ByteCaps == {0, 1}

(***************************************************************************)
(* Local files.  A file is its size and the true duration of the media in  *)
(* it (0 for an empty or unplayable file); Missing is "no such file".      *)
(* A path is a string; the disk maps every path the handler can build to   *)
(* the file stored there.                                                  *)
(***************************************************************************)
Missing == [bytes |-> -1, dur |-> -1]
MkFile(b, d) == [bytes |-> b, dur |-> d]
Exists(f) == f.bytes >= 0
IsMedia(f) == f.bytes > 0 /\ f.dur > 0

MediaFiles   == {MkFile(b, d) : b \in 1..MaxFileBytes, d \in 1..MaxDur}
\* what a tool that died half way may leave behind
PartialFiles == {MkFile(b, 0) : b \in 0..MaxFileBytes}

\* tempfile.gettempdir()
TempDir == <<"/", "t", "m", "p">>

\* os.path.join(a, b)
PathJoin(a, b) ==
    IF b # <<>> /\ Head(b) = "/" THEN b ELSE a \o <<"/">> \o b

\* line 127: os.path.join(tempfile.gettempdir(), f"{rid}.mp4")
OutPathOf(r) == PathJoin(TempDir, PyFormat(r) \o <<".", "m", "p", "4">>)
\* line 128: os.path.join(tempfile.gettempdir(), f"{rid}.cut.mp4")
TrimmedPathOf(r) ==
    PathJoin(TempDir, PyFormat(r) \o <<".", "c", "u", "t", ".", "m", "p", "4">>)

Paths == UNION {{OutPathOf(t), TrimmedPathOf(t)} : t \in ThreadIds}
NoPath == <<>>

\* os.path.exists + os.remove of both files (lines 240-247)
Cleanup(d, pths) == [p \in DOMAIN d |-> IF p \in pths THEN Missing ELSE d[p]]

(***************************************************************************)
(* The probe's metadata: the JSON object yt-dlp -j prints, as the set of   *)
(* its keys and the values of the three keys the handler reads.            *)
(***************************************************************************)
MkInfo(ks, d, f, u) == [keys |-> ks, duration |-> d, formats |-> f, url |-> u]
EmptyInfo == MkInfo({}, None, None, None)

\* info.get(k)
InfoGet(i, k) ==
    IF k \notin i.keys THEN None
    ELSE CASE k = "duration" -> i.duration
           [] k = "formats"  -> i.formats
           [] k = "url"      -> i.url
           [] OTHER          -> Str(<<"x">>)

Infos ==
    {EmptyInfo,
     MkInfo({"id"}, None, None, None),
     MkInfo({"id", "formats"}, None, List(0), None),
     MkInfo({"id", "formats"}, None, List(1), None),
     MkInfo({"id", "url"}, None, None, Str(UrlA)),
     MkInfo({"id", "duration"}, Str(<<"n", "a">>), None, None)}
    \cup {MkInfo({"id", "duration", "formats"}, Num(d), List(1), None) : d \in 1..MaxDur}

(***************************************************************************)
(* The handler's decisions, one operator per condition of the code.        *)
(***************************************************************************)
\* the slip of comparing without testing that a secret is configured
AuthRejected_NoSecretTest(secret, token) == token # secret

\* line 92: WORKER_TOKEN and x_token != WORKER_TOKEN
AuthRejected(secret, token) == secret # "" /\ token # secret

\* line 98: rid = payload.get("thread_id")
NormalRid(p) == p.thread_id

\* lines 101 and 255, before .strip()
ResolveUrl(p) ==
    PyOr(PyOr(PyOr(p.vredd_url, p.video_url_clean), p.video_url), Str(<<>>))

\* line 102
UrlAllowed(cs) == StartsWith(cs, VreddPrefix)

\* line 107: bool(info.get("duration") or info.get("formats") or info.get("url"))
HasMedia(i) ==
    Truthy(PyOr(PyOr(InfoGet(i, "duration"), InfoGet(i, "formats")),
                InfoGet(i, "url")))

\* the slip of gating on an empty result only
PreflightUnavailable_EmptyOnly(i) == i.keys = {}

\* line 108: not info or not has_media
PreflightUnavailable(i) == i.keys = {} \/ ~HasMedia(i)

\* the slip of dropping the probe's hint
HintNeedsTrim_Ignored(i, cap) == FALSE

\* lines 118-124: float() of a non-numeric value raises and the except
\* leaves need_trim False
HintNeedsTrim(i, cap) ==
    /\ "duration" \in i.keys
    /\ Truthy(i.duration)
    /\ cap > 0
    /\ i.duration.t = "int"
    /\ i.duration.n > cap

\* line 152
PostNeedsTrim(pd, cap) == pd.t = "int" /\ cap > 0 /\ pd.n > cap

\* the slip of running the download with check=False
FetchFailed_Unchecked(exit) == FALSE

\* line 141: except subprocess.CalledProcessError
FetchFailed(exit) == exit = "nonzero"

\* line 156
DoTrim(nt, cap) == nt /\ cap > 0

\* the slip of running the trim with check=False
TrimFailed_Unchecked(exit) == FALSE

\* line 166: except subprocess.CalledProcessError
TrimFailed(exit) == exit = "nonzero"

\* line 173: the file uploaded after a successful trim
TrimmedCandidate(raw, cut) == cut

\* line 176
SizeGuardOn(max) == max > 0

\* the slip of measuring the pre-trim file
MeasuredPath_Raw(candidate, raw) == raw

\* line 178: the file the size guard measures
MeasuredPath(candidate, raw) == candidate

\* the slip of a guard that never rejects
SizeRejects_Never(b, max) == FALSE

\* line 179
SizeRejects(b, max) == b > max

\* line 210
UploadRejected(code) == code >= 300

(***************************************************************************)
(* Response bodies.  error is the message prefix ("" when the body has no  *)
(* error object); keys are the keys of the returned dict.                  *)
(***************************************************************************)
NoBody ==
    [keys |-> {}, thread_id |-> None, source_url |-> None, error |-> "",
     detail |-> "", public_id |-> None, secure_url |-> None, thumb_url |-> None,
     video_url_clean |-> None]

ErrorBody(r, v, msg, det) ==
    [keys |-> {"thread_id", "source_url", "error", "video_url_clean"},
     thread_id |-> r, source_url |-> v, error |-> msg, detail |-> det,
     public_id |-> None, secure_url |-> None, thumb_url |-> None,
     video_url_clean |-> v]

SuccessBody(r, v, pid, su, th) ==
    [keys |-> {"thread_id", "source_url", "public_id", "secure_url", "thumb_url"},
     thread_id |-> r, source_url |-> v, error |-> "", detail |-> "",
     public_id |-> pid, secure_url |-> su, thumb_url |-> th,
     video_url_clean |-> None]

Reply(st, b) == [status |-> st, body |-> b]

\* lines 226-229; the fixed parts of the template are kept as whole chunks
ThumbUrl(pid) ==
    IF Truthy(pid)
    THEN Str(<<"https://res.cloudinary.com/", "CLD_NAME",
               "/video/upload/so_2,w_640,h_360,c_fill,q_auto,f_auto/">>
             \o PyFormat(pid) \o <<".jpg">>)
    ELSE None

\* line 254, before .strip()
CatchAllRid(p, u) == PyOr(PyOr(p.thread_id, p.reddit_id), Str(u))

\* lines 252-261: the catch-all builds its body from the payload again; a
\* non-string value has no .strip(), the AttributeError leaves the handler
\* and the framework answers 500
CatchAll(p, u, exc) ==
    IF ~IsStr(CatchAllRid(p, u)) \/ ~IsStr(ResolveUrl(p))
    THEN Reply(500, NoBody)
    ELSE Reply(200, ErrorBody(Str(Strip(CatchAllRid(p, u).s)),
                              Str(Strip(ResolveUrl(p).s)),
                              "unexpected_exception", exc))

(***************************************************************************)
(* What the external tools may do.                                         *)
(***************************************************************************)
\* _preflight_info(url) is called with its default retries (line 49)
PreflightRetries == 1
\* and its default backoff_base (line 49)
BackoffBase == 1

\* the slip of a delay that does not grow
Backoff_Constant(base, n) == base

\* line 68: time.sleep(backoff_base * attempt)
Backoff(base, n) == base * n

\* one run of yt-dlp -j: it exits non-zero, times out, prints nothing that
\* parses, cannot be started at all (OSError), or prints a metadata object
ProbeOutcomes ==
    {[kind |-> k, info |-> EmptyInfo] : k \in {"nonzero", "timeout", "noparse", "oserror"}}
    \cup {[kind |-> "json", info |-> i] : i \in Infos}

\* one run of the download: exit 0 with a media file, an empty file or no
\* file at the output path; non-zero exit with nothing or a partial file
\* written; or the tool cannot be started (OSError), which writes nothing;
\* or the tool never exits: line 140 passes no timeout, so _run waits
DownloadOutcomes ==
    {[exit |-> "ok", file |-> f] : f \in MediaFiles \cup {MkFile(0, 0), Missing}}
    \cup {[exit |-> "nonzero", file |-> f] : f \in PartialFiles \cup {Missing}}
    \cup {[exit |-> "oserror", file |-> Missing]}
    \cup {[exit |-> "hang", file |-> Missing]}

\* ffprobe on a local file: the true duration of a media file, or a failure
\* (_ffprobe_duration turns every failure and a duration <= 0 into None)
FfprobeResults(f) ==
    IF IsMedia(f) THEN {None, Num(f.dur)} ELSE {None}

Min(a, b) == IF a <= b THEN a ELSE b

\* ffmpeg -t cap -c copy: on a media input it may write a copy cut to the
\* cap, never larger than the input; it may exit non-zero leaving nothing or
\* a partial output; or it cannot be started (OSError); or it never exits:
\* line 165 passes timeout=None
TrimOutcomes(f, cap) ==
    (IF IsMedia(f)
     THEN {[exit |-> "ok", file |-> MkFile(b, Min(f.dur, cap))] : b \in 1..f.bytes}
     ELSE {})
    \cup {[exit |-> "nonzero", file |-> g] : g \in {Missing, MkFile(0, 0)}}
    \cup {[exit |-> "oserror", file |-> Missing]}
    \cup {[exit |-> "hang", file |-> Missing]}

\* _short_id(12): a random token over lowercase letters and digits (lines
\* 84-86); a client-chosen thread_id may spell the same characters
ShortIds == {<<"k", "1">>, <<"t", "1">>}

\* the slip of an identifier computed from the correlation id
PublicIdChoices_FromRid(r) == {PyFormat(r)}

\* line 191: what public_id may be in a request whose correlation id is r
PublicIdChoices(r) == ShortIds

\* the JSON object of a 2xx reply, as its keys and the two values read
MkJson(ks, pid, su) == [keys |-> ks, public_id |-> pid, secure_url |-> su]
JsonGet(j, k) ==
    IF k \notin j.keys THEN None
    ELSE IF k = "public_id" THEN j.public_id ELSE j.secure_url

HostedUrl(pid) == Str(<<"https://res.cloudinary.com/", "CLD_NAME", "/video/upload/">> \o pid)

\* requests.post: a transport exception, a reply >= 300, a 2xx reply whose
\* body is not JSON, or a 2xx reply with a JSON object
UploadOutcomes(pid) ==
    {[kind |-> "exception", code |-> 0,   json |-> MkJson({}, None, None)],
     [kind |-> "response",  code |-> 400, json |-> MkJson({}, None, None)],
     [kind |-> "notjson",   code |-> 200, json |-> MkJson({}, None, None)],
     [kind |-> "response",  code |-> 200,
      json |-> MkJson({"public_id", "secure_url"}, Str(pid), HostedUrl(pid))],
     [kind |-> "response",  code |-> 200,
      json |-> MkJson({"secure_url"}, None, HostedUrl(pid))],
     [kind |-> "response",  code |-> 200, json |-> MkJson({"public_id"}, Str(pid), None)]}

(***************************************************************************)
(* State.                                                                  *)
(***************************************************************************)
VARIABLES
    WORKER_TOKEN,    \* line 8
    MAX_DURATION_S,  \* line 9
    MAX_BYTES,       \* line 10
    x_token,         \* the X-Token header of the request
    payload,         \* the request body
    pc,              \* where the handler is
    rid,             \* line 98
    vredd,           \* line 101
    attempt,         \* the loop variable of _preflight_info
    slept,           \* seconds _preflight_info has slept
    info,            \* line 106
    need_trim,       \* lines 118, 153
    out_path,        \* line 127
    trimmed_path,    \* line 128
    out_for_upload,  \* lines 129, 173
    post_dur,        \* line 151
    disk,            \* the temp directory
    calls,           \* the external invocations made so far, in order
    status,          \* HTTP status of the response (0: none yet)
    body,            \* the returned dict
    retries,         \* the parameter retries of _preflight_info (line 49)
    backoff_base,    \* the parameter backoff_base of _preflight_info (line 49)
    parked           \* the locals of the other request of a two-request run

vars == <<WORKER_TOKEN, MAX_DURATION_S, MAX_BYTES, x_token, payload, pc, rid, vredd,
          attempt, slept, info, need_trim, out_path, trimmed_path, out_for_upload,
          post_dur, disk, calls, status, body, retries, backoff_base, parked>>

config == <<WORKER_TOKEN, MAX_DURATION_S, MAX_BYTES, x_token, payload, retries,
            backoff_base>>

\* one external invocation: the tool, its input and output paths, the cap
\* passed to the trim, the file read (size guard, upload), the identifier
\* sent (upload) and how the invocation ended
Call(tool, path, out, cap, file, pid, exit) ==
    [tool |-> tool, path |-> path, out |-> out, cap |-> cap, file |-> file,
     pid |-> pid, exit |-> exit]

\* the locals of a request that has just arrived (line 90)
Arrived(tok, p) ==
    [x_token |-> tok, payload |-> p, pc |-> "auth", rid |-> Unset, vredd |-> Unset,
     attempt |-> 0, slept |-> 0, info |-> EmptyInfo, need_trim |-> FALSE,
     out_path |-> NoPath, trimmed_path |-> NoPath, out_for_upload |-> NoPath,
     post_dur |-> Unset, calls |-> <<>>, status |-> 0, body |-> NoBody]

\* no other request
NoRequest == [Arrived("", [thread_id |-> None, reddit_id |-> None, vredd_url |-> None,
                           video_url_clean |-> None, video_url |-> None])
              EXCEPT !.pc = "none"]

Init ==
    /\ WORKER_TOKEN \in Tokens
    /\ MAX_DURATION_S \in DurationCaps
    /\ MAX_BYTES \in ByteCaps
    /\ x_token \in Headers
    /\ payload \in Payloads
    /\ pc = "auth"
    /\ rid = Unset
    /\ vredd = Unset
    /\ attempt = 0
    /\ slept = 0
    /\ info = EmptyInfo
    /\ need_trim = FALSE
    /\ out_path = NoPath
    /\ trimmed_path = NoPath
    /\ out_for_upload = NoPath
    /\ post_dur = Unset
    /\ disk = [p \in Paths |-> Missing]
    /\ calls = <<>>
    /\ status = 0
    /\ body = NoBody
    /\ retries = PreflightRetries
    /\ backoff_base = BackoffBase
    /\ parked = NoRequest

\* the handler returns or raises: the response leaves
Respond(r) ==
    /\ status' = r.status
    /\ body' = r.body
    /\ pc' = "done"

\* lines 91-93
Auth ==
    /\ pc = "auth"
    /\ IF AuthRejected(WORKER_TOKEN, x_token)
       THEN Respond(Reply(401, NoBody))
       ELSE pc' = "normalize" /\ UNCHANGED <<status, body>>
    /\ UNCHANGED <<config, parked, rid, vredd, attempt, slept, info, need_trim, out_path,
                   trimmed_path, out_for_upload, post_dur, disk, calls>>

\* lines 96-103, and the except clauses 249-261 for what is raised here:
\* .strip() of a non-string raises AttributeError into the catch-all, the
\* HTTPException of line 103 is re-raised as it is
Normalize ==
    /\ pc = "normalize"
    /\ rid' = NormalRid(payload)
    /\ IF ~IsStr(ResolveUrl(payload))
       THEN /\ \E u \in Uuids : Respond(CatchAll(payload, u, "AttributeError"))
            /\ UNCHANGED vredd
       ELSE /\ vredd' = Str(Strip(ResolveUrl(payload).s))
            /\ IF ~UrlAllowed(vredd'.s)
               THEN Respond(Reply(400, NoBody))
               ELSE pc' = "preflight" /\ UNCHANGED <<status, body>>
    /\ UNCHANGED <<config, parked, attempt, slept, info, need_trim, out_path,
                   trimmed_path, out_for_upload, post_dur, disk, calls>>

\* one iteration of the loop of _preflight_info (lines 53-69), called from
\* line 106; an exception other than CalledProcessError / TimeoutExpired
\* leaves _preflight_info and reaches the catch-all
ProbeAttempt ==
    /\ pc = "preflight"
    /\ attempt < retries
    /\ \E o \in ProbeOutcomes :
         /\ calls' = Append(calls, Call("probe", vredd.s, NoPath, 0, Missing, <<>>, o.kind))
         /\ attempt' = attempt + 1
         /\ CASE o.kind = "json" ->
                   /\ info' = o.info
                   /\ pc' = "gate"
                   /\ UNCHANGED <<slept, status, body>>
              [] o.kind = "oserror" ->
                   /\ \E u \in Uuids : Respond(CatchAll(payload, u, "OSError"))
                   /\ UNCHANGED <<slept, info>>
              [] OTHER ->
                   /\ slept' = slept + Backoff(backoff_base, attempt')
                   /\ IF attempt' < retries
                      THEN UNCHANGED <<pc, info>>
                      ELSE pc' = "gate" /\ info' = EmptyInfo
                   /\ UNCHANGED <<status, body>>
    /\ UNCHANGED <<config, parked, rid, vredd, need_trim, out_path, trimmed_path,
                   out_for_upload, post_dur, disk>>

\* lines 107-129: the preflight gate, the duration hint and the two paths
Gate ==
    /\ pc = "gate"
    /\ IF PreflightUnavailable(info)
       THEN /\ Respond(Reply(200, ErrorBody(rid, vredd,
                                            "unavailable_or_removed_preflight", "")))
            /\ UNCHANGED <<need_trim, out_path, trimmed_path, out_for_upload>>
       ELSE /\ need_trim' = HintNeedsTrim(info, MAX_DURATION_S)
            /\ out_path' = OutPathOf(rid)
            /\ trimmed_path' = TrimmedPathOf(rid)
            /\ out_for_upload' = out_path'
            /\ pc' = "download"
            /\ UNCHANGED <<status, body>>
    /\ UNCHANGED <<config, parked, rid, vredd, attempt, slept, info, post_dur, disk, calls>>

\* lines 131-147: the download runs before the try/finally of line 149, so
\* neither the return of line 142 nor an exception of line 140 cleans up
Download ==
    /\ pc = "download"
    /\ \E o \in DownloadOutcomes :
         /\ calls' = Append(calls, Call("download", vredd.s, out_path, 0, Missing, <<>>, o.exit))
         /\ disk' = IF Exists(o.file) THEN [disk EXCEPT ![out_path] = o.file] ELSE disk
         /\ CASE FetchFailed(o.exit) ->
                   Respond(Reply(200, ErrorBody(rid, vredd, "yt-dlp_error",
                                                "CalledProcessError")))
              [] o.exit = "oserror" ->
                   \E u \in Uuids : Respond(CatchAll(payload, u, "OSError"))
              [] o.exit = "hang" ->
                   pc' = "blocked" /\ UNCHANGED <<status, body>>
              [] OTHER ->
                   pc' = "duration" /\ UNCHANGED <<status, body>>
    /\ UNCHANGED <<config, parked, rid, vredd, attempt, slept, info, need_trim, out_path,
                   trimmed_path, out_for_upload, post_dur>>

\* lines 150-153 with _ffprobe_duration (lines 71-82)
Duration ==
    /\ pc = "duration"
    /\ \E pd \in FfprobeResults(disk[out_path]) :
         /\ post_dur' = pd
         /\ need_trim' = (need_trim \/ PostNeedsTrim(pd, MAX_DURATION_S))
    /\ calls' = Append(calls, Call("ffprobe", out_path, NoPath, 0, Missing, <<>>,
                                   IF post_dur' = None THEN "none" ELSE "ok"))
    /\ pc' = "trim"
    /\ UNCHANGED <<config, parked, rid, vredd, attempt, slept, info, out_path, trimmed_path,
                   out_for_upload, disk, status, body>>

\* lines 155-173, with the finally of lines 240-247 on the two ways out
Trim ==
    /\ pc = "trim"
    /\ IF DoTrim(need_trim, MAX_DURATION_S)
       THEN \E o \in TrimOutcomes(disk[out_path], MAX_DURATION_S) :
              /\ calls' = Append(calls, Call("trim", out_path, trimmed_path,
                                             MAX_DURATION_S, Missing, <<>>, o.exit))
              /\ CASE TrimFailed(o.exit) ->
                        /\ disk' = Cleanup(disk, {out_path, trimmed_path})
                        /\ Respond(Reply(200, ErrorBody(rid, vredd, "ffmpeg_trim_error",
                                                        "CalledProcessError")))
                        /\ UNCHANGED out_for_upload
                   [] o.exit = "oserror" ->
                        /\ disk' = Cleanup(disk, {out_path, trimmed_path})
                        /\ \E u \in Uuids : Respond(CatchAll(payload, u, "OSError"))
                        /\ UNCHANGED out_for_upload
                   [] o.exit = "hang" ->
                        /\ pc' = "blocked"
                        /\ UNCHANGED <<out_for_upload, disk, status, body>>
                   [] OTHER ->
                        /\ disk' = [disk EXCEPT ![trimmed_path] = o.file]
                        /\ out_for_upload' = TrimmedCandidate(out_path, trimmed_path)
                        /\ pc' = "size_guard"
                        /\ UNCHANGED <<status, body>>
       ELSE /\ pc' = "size_guard"
            /\ UNCHANGED <<out_for_upload, disk, calls, status, body>>
    /\ UNCHANGED <<config, parked, rid, vredd, attempt, slept, info, need_trim, out_path,
                   trimmed_path, post_dur>>

\* lines 175-187: os.path.getsize of a missing file raises, and the except
\* of line 186 lets the request go on
SizeGuard ==
    /\ pc = "size_guard"
    /\ IF SizeGuardOn(MAX_BYTES)
       THEN /\ calls' = Append(calls, Call("getsize", MeasuredPath(out_for_upload, out_path),
                                           NoPath, 0,
                                           disk[MeasuredPath(out_for_upload, out_path)],
                                           <<>>, "ok"))
            /\ IF /\ Exists(disk[MeasuredPath(out_for_upload, out_path)])
                  /\ SizeRejects(disk[MeasuredPath(out_for_upload, out_path)].bytes, MAX_BYTES)
               THEN /\ disk' = Cleanup(disk, {out_path, trimmed_path})
                    /\ Respond(Reply(200, ErrorBody(rid, vredd, "skipped_large_file", "")))
               ELSE pc' = "upload" /\ UNCHANGED <<disk, status, body>>
       ELSE pc' = "upload" /\ UNCHANGED <<disk, calls, status, body>>
    /\ UNCHANGED <<config, parked, rid, vredd, attempt, slept, info, need_trim, out_path,
                   trimmed_path, out_for_upload, post_dur>>

\* what lines 202-238 return for the outcome o of requests.post
UploadReply(o, r, v, p, u) ==
    CASE o.kind = "exception" ->
           Reply(200, ErrorBody(r, v, "cloudinary_exception", "RequestException"))
      [] o.kind # "exception" /\ UploadRejected(o.code) ->
           Reply(200, ErrorBody(r, v, "cloudinary_error", ""))
      [] o.kind = "notjson" /\ ~UploadRejected(o.code) ->
           CatchAll(p, u, "JSONDecodeError")
      [] OTHER ->
           Reply(200, SuccessBody(r, v, JsonGet(o.json, "public_id"),
                                  JsonGet(o.json, "secure_url"),
                                  ThumbUrl(JsonGet(o.json, "public_id"))))

\* lines 189-238, with the finally of lines 240-247: open() of a missing
\* file raises FileNotFoundError before anything is sent
Upload ==
    /\ pc = "upload"
    /\ \E u \in Uuids :
         IF ~Exists(disk[out_for_upload])
         THEN /\ Respond(CatchAll(payload, u, "FileNotFoundError"))
              /\ UNCHANGED calls
         ELSE \E pid \in PublicIdChoices(rid) : \E o \in UploadOutcomes(pid) :
                /\ calls' = Append(calls, Call("upload", out_for_upload, NoPath, 0,
                                               disk[out_for_upload], pid, o.kind))
                /\ Respond(UploadReply(o, rid, vredd, payload, u))
    /\ disk' = Cleanup(disk, {out_path, trimmed_path})
    /\ UNCHANGED <<config, parked, rid, vredd, attempt, slept, info, need_trim, out_path,
                   trimmed_path, out_for_upload, post_dur>>

(***************************************************************************)
(* Two requests.  The handler is a plain def, which the framework runs on  *)
(* a worker thread per request, and the module holds no lock: the threads  *)
(* share only the process constants and the temp directory.  The state     *)
(* holds the locals of the running thread; the other thread's are parked.  *)
(***************************************************************************)
Locals ==
    [x_token |-> x_token, payload |-> payload, pc |-> pc, rid |-> rid, vredd |-> vredd,
     attempt |-> attempt, slept |-> slept, info |-> info, need_trim |-> need_trim,
     out_path |-> out_path, trimmed_path |-> trimmed_path,
     out_for_upload |-> out_for_upload, post_dur |-> post_dur, calls |-> calls,
     status |-> status, body |-> body]

IsUpload(c) == c.tool = "upload"

\* a thread that has returned is over: what stays of it is its response and
\* the uploads it made
Retired(l) ==
    IF l.pc = "done"
    THEN [Arrived(l.x_token, l.payload)
          EXCEPT !.pc = "done", !.rid = l.rid, !.vredd = l.vredd,
                 !.calls = SelectSeq(l.calls, IsUpload),
                 !.status = l.status, !.body = l.body]
    ELSE l

\* the running thread is exchanged for the parked one
Resume ==
    /\ parked' = Retired(Locals)
    /\ x_token' = parked.x_token
    /\ payload' = parked.payload
    /\ pc' = parked.pc
    /\ rid' = parked.rid
    /\ vredd' = parked.vredd
    /\ attempt' = parked.attempt
    /\ slept' = parked.slept
    /\ info' = parked.info
    /\ need_trim' = parked.need_trim
    /\ out_path' = parked.out_path
    /\ trimmed_path' = parked.trimmed_path
    /\ out_for_upload' = parked.out_for_upload
    /\ post_dur' = parked.post_dur
    /\ calls' = parked.calls
    /\ status' = parked.status
    /\ body' = parked.body
    /\ UNCHANGED <<WORKER_TOKEN, MAX_DURATION_S, MAX_BYTES, retries, backoff_base, disk>>

\* requests one after the other: the next one is handled when the first
\* has returned
Handoff ==
    /\ pc = "done"
    /\ parked.pc = "auth"
    /\ Resume

\* concurrent requests: the other thread runs whenever it has work left and
\* this one is at a call that touches the shared temp directory, or is done
Switch ==
    /\ parked.pc \notin {"none", "done", "blocked"}
    /\ pc \in {"download", "duration", "trim", "size_guard", "upload", "done", "blocked"}
    /\ Resume

\* the request bodies of the two-request runs: the same thread_id, or none
TwoPayloads ==
    {[thread_id |-> t, reddit_id |-> None, vredd_url |-> Str(UrlA),
      video_url_clean |-> None, video_url |-> None] : t \in {None, Str(<<"t", "1">>)}}

InitTwo ==
    /\ WORKER_TOKEN = ""
    /\ MAX_DURATION_S \in DurationCaps
    /\ MAX_BYTES = 0
    /\ x_token = "tok"
    /\ payload \in TwoPayloads
    /\ pc = "auth"
    /\ rid = Unset
    /\ vredd = Unset
    /\ attempt = 0
    /\ slept = 0
    /\ info = EmptyInfo
    /\ need_trim = FALSE
    /\ out_path = NoPath
    /\ trimmed_path = NoPath
    /\ out_for_upload = NoPath
    /\ post_dur = Unset
    /\ disk = [p \in Paths |-> Missing]
    /\ calls = <<>>
    /\ status = 0
    /\ body = NoBody
    /\ retries = PreflightRetries
    /\ backoff_base = BackoffBase
    /\ \E p \in TwoPayloads : parked = Arrived("tok", p)

Next ==
    \/ Auth
    \/ Normalize
    \/ ProbeAttempt
    \/ Gate
    \/ Download
    \/ Duration
    \/ Trim
    \/ SizeGuard
    \/ Upload

Spec == Init /\ [][Next]_vars

\* _preflight_info on its own (lines 49-69): called for a validated request
\* with any retries >= 1 and any backoff_base
BackoffBases == {1, 2}
ProbePayloads ==
    {p \in Payloads : /\ IsStr(ResolveUrl(p))
                      /\ UrlAllowed(Strip(ResolveUrl(p).s))}

InitProbe ==
    /\ WORKER_TOKEN = ""
    /\ MAX_DURATION_S = 0
    /\ MAX_BYTES = 0
    /\ x_token = "tok"
    /\ payload \in ProbePayloads
    /\ pc = "preflight"
    /\ rid = NormalRid(payload)
    /\ vredd = Str(Strip(ResolveUrl(payload).s))
    /\ attempt = 0
    /\ slept = 0
    /\ info = EmptyInfo
    /\ need_trim = FALSE
    /\ out_path = NoPath
    /\ trimmed_path = NoPath
    /\ out_for_upload = NoPath
    /\ post_dur = Unset
    /\ disk = [p \in Paths |-> Missing]
    /\ calls = <<>>
    /\ status = 0
    /\ body = NoBody
    /\ retries \in 1..MaxRetries
    /\ backoff_base \in BackoffBases
    /\ parked = NoRequest

SpecProbe == InitProbe /\ [][ProbeAttempt]_vars

SpecSeq == InitTwo /\ [][Next \/ Handoff]_vars

SpecConc == InitTwo /\ [][Next \/ Switch]_vars

(***************************************************************************)
(* Vocabulary of the properties.                                           *)
(***************************************************************************)
ToolCalls(t) == {i \in 1..Len(calls) : calls[i].tool = t}
Called(t) == ToolCalls(t) # {}
Returned == pc = "done"
\* the request got past validation: a source URL was captured and allowed
Validated == IsStr(vredd) /\ StartsWith(vredd.s, VreddPrefix)
TokenMismatch == WORKER_TOKEN # "" /\ x_token # WORKER_TOKEN

(***************************************************************************)
(* C1: every request ends in 401, 400 or a 200 body; no other exception    *)
(* leaves the handler, the catch-all branch included.                      *)
(***************************************************************************)
C1_OnlyIntendedStatuses == Returned => status \in {200, 400, 401}

(***************************************************************************)
(* C2: every 200 body carries the thread_id and the source_url captured at *)
(* normalization (lines 98 and 101), the catch-all body included.          *)
(***************************************************************************)
C2_EchoesNormalizedValues ==
    status = 200 => body.thread_id = rid /\ body.source_url = vredd

(***************************************************************************)
(* C3: once a validated request has returned, neither its raw file nor its *)
(* trimmed file is on disk.                                                *)
(***************************************************************************)
C3_NoTempFileAfterReturn ==
    (Returned /\ Validated) =>
        /\ ~Exists(disk[OutPathOf(rid)])
        /\ ~Exists(disk[TrimmedPathOf(rid)])

(***************************************************************************)
(* C4: a request that passes the token check and whose source URL is       *)
(* missing or does not start with the allowed prefix is answered 400, and  *)
(* no external tool and no upload is invoked for it.                       *)
(***************************************************************************)
C4_InvalidUrlIs400 ==
    (Returned /\ ~TokenMismatch
       /\ ~(IsStr(ResolveUrl(payload))
             /\ StartsWith(Strip(ResolveUrl(payload).s), VreddPrefix)))
    => (status = 400 /\ calls = <<>>)

(***************************************************************************)
(* C5: with a secret configured and a different X-Token the answer is 401, *)
(* before anything is normalized, invoked or written; with no secret       *)
(* configured no token is ever refused.                                    *)
(***************************************************************************)
C5_TokenMismatchIs401 ==
    /\ (TokenMismatch /\ pc # "auth") =>
          /\ Returned /\ status = 401
          /\ rid = Unset /\ vredd = Unset
          /\ calls = <<>>
          /\ \A p \in Paths : ~Exists(disk[p])
    /\ WORKER_TOKEN = "" => status # 401

C5_Witness == TokenMismatch /\ Returned /\ payload.vredd_url = Str(UrlA)

(***************************************************************************)
(* C6: when the download exits non-zero the request ends with a 200 body   *)
(* whose error names the fetch failure, and the duration reader, the trim  *)
(* and the upload are never invoked.                                       *)
(***************************************************************************)
DownloadExitedNonZero ==
    \E i \in ToolCalls("download") : calls[i].exit = "nonzero"

C6_FetchFailureEndsRequest ==
    DownloadExitedNonZero =>
        /\ Returned /\ status = 200
        /\ "error" \in body.keys /\ body.error = "yt-dlp_error"
        /\ ~Called("ffprobe") /\ ~Called("trim") /\ ~Called("upload")

C6_Witness == DownloadExitedNonZero /\ Returned

(***************************************************************************)
(* C7: with MAX_BYTES > 0 the size guard measures the upload candidate     *)
(* (the trimmed copy after a trim, else the raw fetch); a candidate larger *)
(* than MAX_BYTES ends the request as skipped without an upload, so no     *)
(* file larger than MAX_BYTES is uploaded. With MAX_BYTES = 0 the guard    *)
(* never rejects.                                                          *)
(***************************************************************************)
TrimSucceeded == \E i \in ToolCalls("trim") : calls[i].exit = "ok"
\* the candidate as the invocations so far determine it
CandidateByLog == IF TrimSucceeded THEN TrimmedPathOf(rid) ELSE OutPathOf(rid)

C7_SizeGuardOnCandidate ==
    /\ MAX_BYTES > 0 =>
          /\ \A i \in ToolCalls("getsize") :
                /\ calls[i].path = CandidateByLog
                /\ calls[i].file.bytes > MAX_BYTES =>
                      /\ Returned /\ status = 200
                      /\ body.error = "skipped_large_file"
                      /\ ~Called("upload")
          /\ \A i \in ToolCalls("upload") :
                /\ Called("getsize")
                /\ calls[i].file.bytes <= MAX_BYTES
          /\ pc = "upload" => Called("getsize")
    /\ MAX_BYTES = 0 => (~Called("getsize") /\ body.error # "skipped_large_file")

\* a trimmed copy over the limit was measured and skipped
C7_Witness ==
    /\ MAX_BYTES > 0 /\ TrimSucceeded /\ Returned
    /\ body.error = "skipped_large_file"

(***************************************************************************)
(* C8: once the duration has been read, if MAX_DURATION_S > 0 and the      *)
(* probe's hint or the measured duration exceeds it, the trim is invoked   *)
(* exactly once with cap MAX_DURATION_S and the size guard and the upload  *)
(* work on the trimmed file only; otherwise the trim is not invoked and    *)
(* they work on the raw fetch. The candidate is always exactly one of the  *)
(* two files.                                                              *)
(***************************************************************************)
HintExceeds ==
    /\ "duration" \in info.keys
    /\ info.duration.t = "int"
    /\ info.duration.n > MAX_DURATION_S
MeasuredExceeds == post_dur.t = "int" /\ post_dur.n > MAX_DURATION_S
TrimDue == MAX_DURATION_S > 0 /\ (HintExceeds \/ MeasuredExceeds)
\* the duration was read and the trim step has been taken
EnforcerDone == Called("ffprobe") /\ pc # "trim"

C8_TrimDecidesCandidate ==
    /\ (EnforcerDone /\ TrimDue) =>
          /\ Cardinality(ToolCalls("trim")) = 1
          /\ \A i \in ToolCalls("trim") :
                /\ calls[i].cap = MAX_DURATION_S
                /\ calls[i].path = OutPathOf(rid)
                /\ calls[i].out = TrimmedPathOf(rid)
          /\ \A i \in ToolCalls("getsize") \cup ToolCalls("upload") :
                calls[i].path = TrimmedPathOf(rid)
          /\ pc \in {"size_guard", "upload"} => out_for_upload = TrimmedPathOf(rid)
    /\ (EnforcerDone /\ ~TrimDue) =>
          /\ ~Called("trim")
          /\ \A i \in ToolCalls("getsize") \cup ToolCalls("upload") :
                calls[i].path = OutPathOf(rid)
          /\ out_for_upload = OutPathOf(rid)
    /\ out_path # NoPath =>
          /\ out_path # trimmed_path
          /\ out_for_upload \in {out_path, trimmed_path}

\* the hint alone asked for the trim and the trimmed file was uploaded
C8_Witness ==
    /\ HintExceeds /\ ~MeasuredExceeds /\ MAX_DURATION_S > 0
    /\ \E i \in ToolCalls("upload") : calls[i].path = TrimmedPathOf(rid)

(***************************************************************************)
(* C9: when the trim is invoked and exits non-zero the request ends with a *)
(* 200 body whose error names the trim failure; the size guard and the     *)
(* upload are never invoked, so the raw file is not uploaded in its place. *)
(***************************************************************************)
TrimExitedNonZero == \E i \in ToolCalls("trim") : calls[i].exit = "nonzero"

C9_TrimFailureEndsRequest ==
    TrimExitedNonZero =>
        /\ Returned /\ status = 200
        /\ "error" \in body.keys /\ body.error = "ffmpeg_trim_error"
        /\ ~Called("getsize") /\ ~Called("upload")

C9_Witness == TrimExitedNonZero /\ Returned /\ MAX_BYTES > 0

(***************************************************************************)
(* C10: when the probe's result is empty or has no duration, no non-empty  *)
(* format list and no direct URL, the request ends with the                *)
(* preflight-unavailable 200 body and the download, the duration reader,   *)
(* the trim and the upload are never invoked; the download is invoked only *)
(* after a probe result with usable media.                                 *)
(***************************************************************************)
UsableMedia ==
    \/ "duration" \in info.keys /\ ~(info.duration \in {None, Num(0), Str(<<>>)})
    \/ "formats" \in info.keys /\ info.formats.t = "list" /\ info.formats.n > 0
    \/ "url" \in info.keys /\ ~(info.url \in {None, Str(<<>>)})
\* the probe has given its result (it did not raise) and the gate was passed
ProbeAnswered ==
    /\ Called("probe")
    /\ \A i \in ToolCalls("probe") : calls[i].exit # "oserror"
    /\ pc \notin {"preflight", "gate"}

C10_NoMediaEndsRequest ==
    /\ (ProbeAnswered /\ ~UsableMedia) =>
          /\ Returned /\ status = 200
          /\ "error" \in body.keys
          /\ body.error = "unavailable_or_removed_preflight"
          /\ ~Called("download") /\ ~Called("ffprobe")
          /\ ~Called("trim") /\ ~Called("upload")
    /\ Called("download") => (ProbeAnswered /\ UsableMedia)

\* a non-empty result without media ended the request
C10_Witness == ProbeAnswered /\ ~UsableMedia /\ info.keys # {} /\ Returned

(***************************************************************************)
(* C11: every 200 body has either the publish fields or an error object    *)
(* with a message, never both; a body of the success shape has non-null    *)
(* public_id, secure_url and thumb_url, the thumb_url built from the       *)
(* returned public_id, whatever JSON the 2xx reply of the hosting service  *)
(* carries.                                                                *)
(***************************************************************************)
PublishKeys == {"public_id", "secure_url", "thumb_url"}
SuccessShape == PublishKeys \subseteq body.keys
ErrorShape == "error" \in body.keys

C11_SuccessFieldsNonNull ==
    status = 200 =>
        /\ SuccessShape # ErrorShape
        /\ ErrorShape => body.error # ""
        /\ SuccessShape =>
              /\ body.public_id # None
              /\ body.secure_url # None
              /\ body.thumb_url # None
              /\ body.thumb_url = ThumbUrl(body.public_id)

(***************************************************************************)
(* C12: over a sequence of requests no two Publisher invocations use the   *)
(* same remote identifier, and no two success bodies report the same one:  *)
(* the identifier of an invocation was used by no earlier invocation.      *)
(***************************************************************************)
EarlierUploads == {j \in 1..Len(parked.calls) : parked.calls[j].tool = "upload"}

C12_RemoteIdsNeverRepeat ==
    /\ \A i \in ToolCalls("upload") : \A j \in EarlierUploads :
          calls[i].pid # parked.calls[j].pid
    /\ (/\ status = 200 /\ SuccessShape /\ body.public_id # None
        /\ parked.status = 200 /\ PublishKeys \subseteq parked.body.keys)
       => body.public_id # parked.body.public_id

(***************************************************************************)
(* C13: a request without thread_id gets its correlation identifier from   *)
(* reddit_id when that is present and a synthesized value otherwise (or is *)
(* refused as a client error): it is never probed, fetched or answered     *)
(* with a null identifier, on the normal path as on the catch-all path.    *)
(***************************************************************************)
C13_AbsentIdIsResolved ==
    payload.thread_id = None =>
        /\ Called("probe") => rid # None
        /\ status = 200 =>
              /\ body.thread_id # None
              /\ payload.reddit_id # None => body.thread_id = payload.reddit_id

(***************************************************************************)
(* C14: while another request is in flight (its paths are assigned and it  *)
(* has not returned), no step of the running request writes, overwrites or *)
(* deletes the other request's raw or trimmed file.                        *)
(***************************************************************************)
InFlight(l) == l.pc \in {"download", "duration", "trim", "size_guard", "upload"}

C14_TempFilesPrivate ==
    [][InFlight(parked) =>
         /\ disk'[parked.out_path] = disk[parked.out_path]
         /\ disk'[parked.trimmed_path] = disk[parked.trimmed_path]]_vars

(***************************************************************************)
(* C15: the external steps of a request run in the order probe, download,  *)
(* duration read, trim (optional), size check, upload, none of them twice  *)
(* and none before its predecessor succeeded; a failed step is the last    *)
(* step of the request. The upload is invoked at most once, and only after *)
(* a download that exited 0, a trim that exited 0 when a trim was due, and *)
(* a size check that did not reject the candidate.                         *)
(***************************************************************************)
Rank(t) ==
    CASE t = "probe"    -> 1
      [] t = "download" -> 2
      [] t = "ffprobe"  -> 3
      [] t = "trim"     -> 4
      [] t = "getsize"  -> 5
      [] OTHER          -> 6
\* how a step ends when it fails its stage
FailedExits == {"nonzero", "timeout", "noparse", "oserror", "hang", "exception"}
ExitOf(t) == {calls[i].exit : i \in ToolCalls(t)}

C16_UploadWithinDurationCap ==
    MAX_DURATION_S > 0 =>
        \A i \in ToolCalls("upload") : calls[i].file.dur <= MAX_DURATION_S

(***************************************************************************)
(* C17: _preflight_info makes at most `retries` attempts; it returns as    *)
(* soon as an attempt yields a parsed object, so every attempt before the  *)
(* last one failed; non-zero exit, timeout and unparseable output are      *)
(* failed attempts; after the n-th failed attempt it sleeps                *)
(* backoff_base * n; after `retries` failed attempts it returns the empty  *)
(* result and nothing is raised.                                           *)
(***************************************************************************)
ProbeFailures == {"nonzero", "timeout", "noparse"}
FailedProbes ==
    Cardinality({i \in ToolCalls("probe") : calls[i].exit \in ProbeFailures})
\* 1 + 2 + ... + n
SumTo(n) == (n * (n + 1)) \div 2

C17_PreflightRetryBudget ==
    /\ attempt <= retries
    /\ Cardinality(ToolCalls("probe")) = attempt
    /\ \A i \in ToolCalls("probe") : i < attempt => calls[i].exit \in ProbeFailures
    /\ slept = backoff_base * SumTo(FailedProbes)
    /\ (attempt >= 1 /\ calls[attempt].exit = "json") => pc # "preflight"
    /\ (attempt >= 1 /\ FailedProbes = attempt /\ attempt < retries) => pc = "preflight"
    /\ FailedProbes = retries =>
          /\ pc \in {"gate", "done"}
          /\ info = EmptyInfo
          /\ status # 500

\* a budget of several attempts, all of them failed
C17_Witness ==
    /\ retries >= 2
    /\ FailedProbes = retries
    /\ pc = "gate"

(***************************************************************************)
(* C18: a download that exits 0 but leaves an empty or missing file is a   *)
(* failed attempt and never reaches the duration reader; a request that    *)
(* ends with the fetch-failed response has tried the download more than    *)
(* once.                                                                   *)
(***************************************************************************)
C18_EmptyFetchRetried ==
    /\ pc = "duration" => (Exists(disk[out_path]) /\ disk[out_path].bytes > 0)
    /\ (Returned /\ body.error = "yt-dlp_error") =>
           Cardinality(ToolCalls("download")) > 1

(***************************************************************************)
(* C19: a request that has not returned can always take a step: no         *)
(* external call leaves the handler waiting for ever.                      *)
(***************************************************************************)
C19_NeverStuck == Returned \/ ENABLED Next

(***************************************************************************)
(* C20 as stated: the identifier sent to the hosting service never         *)
(* contains the correlation identifier nor any substring of the source     *)
(* URL, and is never a temp file name.                                     *)
(***************************************************************************)
Contains(s, t) ==
    \E i \in 0..(Len(s) - Len(t)) : SubSeq(s, i + 1, i + Len(t)) = t
Substrings(u) ==
    {SubSeq(u, ij[1], ij[2]) :
        ij \in {x \in (1..Len(u)) \X (1..Len(u)) : x[1] <= x[2]}}

C20_IdNeverContainsRequestData ==
    \A i \in ToolCalls("upload") :
        /\ IsStr(rid) => ~Contains(calls[i].pid, rid.s)
        /\ \A t \in Substrings(vredd.s) : ~Contains(calls[i].pid, t)
        /\ calls[i].pid \notin {out_path, trimmed_path}

(***************************************************************************)
(* C20, amended: the identifier sent is always a token of _short_id and    *)
(* never a temp file path, and at the upload every token of _short_id can  *)
(* be the one sent, whatever the correlation identifier and the source URL *)
(* of the request.                                                         *)
(***************************************************************************)
C20_IdDrawnIndependently ==
    /\ \A i \in ToolCalls("upload") :
          /\ calls[i].pid \in ShortIds
          /\ calls[i].pid \notin {out_path, trimmed_path, calls[i].path}
    /\ (pc = "upload" /\ Exists(disk[out_for_upload])) =>
          \A k \in ShortIds : ENABLED (Upload /\ calls'[Len(calls')].pid = k)

\* the token sent happens to spell the correlation identifier
C20_Witness ==
    /\ Returned
    /\ IsStr(rid)
    /\ \E i \in ToolCalls("upload") : Contains(calls[i].pid, rid.s)

====
